---- MODULE Spec2Model ----
(***************************************************************************)
(* The APS Design Automation client of revit_family_maker                  *)
(* (src/revit_family_maker/aps_client.py) as a state machine.              *)
(*                                                                         *)
(* The client runs on one asyncio event loop: a coroutine runs without     *)
(* interruption from one await to the next.  Every action below is one     *)
(* such segment: a caller resumes from the await it was suspended in (an   *)
(* HTTP request, a tenacity back-off sleep, the inter-poll sleep), runs    *)
(* the code up to the next await and suspends there, or finishes.          *)
(* Time is the wall clock read by time.time(); it passes only while every  *)
(* caller is suspended, so an await that completes at time w resumes its   *)
(* caller when w is the earliest pending completion.                       *)
(***************************************************************************)
EXTENDS Integers, Sequences, FiniteSets, TLC

VARIABLES
    now,        \* time.time()
    _token,     \* APSClient._token of the shared client: NoToken or an APSToken
    issued,     \* number of credentials the authentication endpoint has granted
    validUntil, \* observation: latest t + E - 300 over the successful exchanges
    rtt,        \* the network: how long one HTTP round trip takes in this run
    faultsLeft, \* the network: how many more requests it may fail in this run
    task,       \* per caller: the locals of its coroutine and what it has done
    call,       \* the call of the tool perform_family_creation, if there is one
    _catalog,   \* templates._catalog: NoCatalog or the global TemplateCatalog
    listing,    \* the last call of get_template_catalog and what it returned
    MIGRATIONS_DIR,     \* db/migrations: number of a file -> checksum of its content
    archon_migrations,  \* the table: number of a file -> checksum recorded for it
    upRun,      \* the last call of migrate_up
    _aps_client,    \* aps_client._aps_client: NoClient or the singleton APSClient
    got         \* the last call of get_aps_client and what it returned

apsVars == <<now, _token, issued, validUntil, rtt, faultsLeft, task, call>>
catalogVars == <<_catalog, listing>>
dbVars == <<MIGRATIONS_DIR, archon_migrations, upRun>>
clientVars == <<_aps_client, got>>

\* What the APS client and the tool leave alone.
others == <<catalogVars, dbVars, clientVars>>

vars == <<now, _token, issued, validUntil, rtt, faultsLeft, task, call, others>>

None == "None"

\* ---------------------------------------------------------------- bounds
MaxLatency == 1         \* longest duration of one HTTP round trip
MaxFaults == 3          \* failed requests in a run of one caller
MaxCalls == 2           \* calls of authenticate() one caller makes in a row
MaxWait == 11           \* the positive max_wait a caller passes
ShortExpiry == 305      \* a short expires_in granted by the endpoint
ExecFaults == 1         \* failed requests in a run of execute_aps_workitem
ExecWait == 6           \* the max_wait execute_aps_workitem is called with
PairFaults == 1         \* failed token requests in two concurrent runs
PairWait == 1           \* the max_wait of two concurrent runs
LiveFaults == 1         \* failed requests in a run that is checked for termination
MaxListings == 2        \* calls of get_template_catalog
MaxMigrations == 3      \* migration files
MaxUps == 3             \* calls of migrate_up
MaxGets == 3            \* calls of get_aps_client

Latency == 0 .. MaxLatency
MaxWaits == {0, MaxWait}

\* ------------------------------------------------------ program constants
SAFETY_MARGIN == 300            \* is_expired: 5-minute buffer
DEFAULT_EXPIRES_IN == 3600      \* result.get("expires_in", 3600)
DEFAULT_POLL_INTERVAL == 5      \* poll_workitem(poll_interval=5)
AUTH_ATTEMPTS == 3              \* authenticate: stop_after_attempt(3)
AUTH_WAIT_MIN == 2              \* authenticate: wait_exponential(min=2)
AUTH_WAIT_MAX == 10             \* authenticate: wait_exponential(max=10)
STATUS_ATTEMPTS == 3            \* get_workitem_status: stop_after_attempt(3)
STATUS_WAIT_MIN == 1            \* get_workitem_status: wait_exponential(min=1)
STATUS_WAIT_MAX == 5            \* get_workitem_status: wait_exponential(max=5)
EXEC_ATTEMPTS == 3              \* execute_aps_workitem: stop_after_attempt(3)
EXEC_WAIT_MIN == 2              \* execute_aps_workitem: wait_exponential(min=2)
EXEC_WAIT_MAX == 10             \* execute_aps_workitem: wait_exponential(max=10)

\* The two coroutines perform_family_creation gathers on the shared client.
Callers == {"prompt", "image"}

\* The arguments execute_aps_workitem declares, in dict order, and their verbs.
ArgOrder == <<"templateFile", "parametersFile", "outputFamily", "outputManifest">>
ArgNames == {ArgOrder[k] : k \in 1 .. Len(ArgOrder)}
Verb(a) == IF a \in {"templateFile", "parametersFile"} THEN "get" ELSE "put"
OutputArgs == {a \in ArgNames : Verb(a) = "put"}

\* What the endpoint may grant as expires_in.
ExpiresIn == {ShortExpiry, DEFAULT_EXPIRES_IN}

\* Values status.get("status") takes ("failedinstructions" is the
\* all-lower-case spelling, which is not the service's "failedInstructions";
\* None is what .get returns for a response without the field).
Statuses == {"pending", "inprogress", "success", "failedInstructions",
             "failedinstructions", "cancelled", None}

\* An exception: its Python type, the method that raised it, and for
\* tenacity's RetryError the type of the last attempt's exception, otherwise
\* the message.
NoErr == [type |-> None, origin |-> None, detail |-> None]
Err(t, o, d) == [type |-> t, origin |-> o, detail |-> d]

\* authenticate, all attempts used up on exceptions of type x: tenacity raises
\* RetryError (reraise is not set).
AuthRetryError(x) == Err("RetryError", "authenticate", x)
\* create_workitem: response.raise_for_status(), or the request itself, raises x
SubmitError(x) == Err(x, "create_workitem", x)
\* get_workitem_status: response.raise_for_status()
StatusHttpStatusError == Err("HTTPStatusError", "get_workitem_status", "HTTPStatusError")
\* get_workitem_status, all attempts used up on httpx.RequestError
StatusRetryError == Err("RetryError", "get_workitem_status", "RequestError")
\* poll_workitem: raise RuntimeError(f"WorkItem failed: {status.get('reportUrl', 'No report')}")
WorkItemFailed(reportUrl) ==
    Err("RuntimeError", "poll_workitem",
        IF reportUrl = None THEN "WorkItem failed: No report"
        ELSE "WorkItem failed: reportUrl")
\* poll_workitem: raise RuntimeError("WorkItem was cancelled")
WorkItemCancelled == Err("RuntimeError", "poll_workitem", "WorkItem was cancelled")
\* poll_workitem: raise TimeoutError(...)
WorkItemTimeout == Err("TimeoutError", "poll_workitem", "WorkItem did not complete")
\* download_file: response.raise_for_status(), or the request itself, raises x
DownloadError(x) == Err(x, "download_file", x)
\* execute_aps_workitem: raise RuntimeError("Missing output files from WorkItem")
MissingOutputs == Err("RuntimeError", "execute_aps_workitem", "Missing output files")
\* execute_aps_workitem, all attempts used up on exceptions of type x
ExecRetryError(x) == Err("RetryError", "execute_aps_workitem", x)
\* asyncio.CancelledError, thrown into the coroutine at the await it is
\* suspended in when its task is cancelled
CancelledError == Err("CancelledError", "asyncio", "CancelledError")

NoStatus == [status |-> None, urls |-> {}, reportUrl |-> None]

Max(a, b) == IF a >= b THEN a ELSE b
Min(a, b) == IF a <= b THEN a ELSE b

RECURSIVE Pow2(_)
Pow2(n) == IF n <= 0 THEN 1 ELSE 2 * Pow2(n - 1)

\* tenacity.wait_exponential(multiplier=1, min=lo, max=hi) after attempt n.
wait_exponential(n, lo, hi) == Max(Max(0, lo), Min(Pow2(n - 1), hi))

\* self._token = None
NoToken == [access_token |-> 0, expires_at |-> 0]

\* An expiry test without the 5-minute buffer.
is_expired_NoBuffer(tok, t) == t >= tok.expires_at

\* APSToken.is_expired
is_expired(tok, t) == t >= tok.expires_at - SAFETY_MARGIN

\* The names of final_status["arguments"] that are dicts holding "url",
\* in iteration order.
RECURSIVE UrlSeq(_, _)
UrlSeq(urls, k) ==
    IF k > Len(ArgOrder) THEN <<>>
    ELSE (IF ArgOrder[k] \in urls THEN <<ArgOrder[k]>> ELSE <<>>)
         \o UrlSeq(urls, k + 1)


\* --------------------------------------------------- the tool's call
\* What an optional string argument may be: None, the empty string, a text.
Texts == {None, "", "text"}

\* Python's truth value of an Optional[str].
Truthy_NotNone(x) == x # None
Truthy(x) == x \notin {None, ""}

\* The frame of perform_family_creation and what the call has done.
\* pc: idle | start | hybrid | text | image | done
NewCall(description, image_path, category, use_prompt, use_image) ==
    [pc |-> "start",
     description |-> description, image_path |-> image_path,
     category |-> category, use_prompt |-> use_prompt, use_image |-> use_image,
     promptErr |-> None,        \* what generate_family_from_prompt raised
     imageErr |-> None,         \* what generate_family_from_image raised
     promptFound |-> FALSE,     \* generate_family_from_prompt got a template
     imageFound |-> FALSE,      \* generate_family_from_image got a template
     err |-> None,              \* the type of the exception the call raised
     msg |-> None,              \* its message
     nLookup |-> 0,             \* get_template_catalog calls
     nImage |-> 0,              \* strip_exif_pii calls
     nAps |-> 0]                \* execute_aps_workitem calls

NoCall == [NewCall(None, None, None, FALSE, FALSE) EXCEPT !.pc = "idle"]

CallRaise(c, type, msg) == [c EXCEPT !.pc = "done", !.err = type, !.msg = msg]

\* perform_family_creation: the validation and the choice of the mode.
perform_family_creation(c) ==
    IF ~Truthy(c.description) /\ ~Truthy(c.image_path)
    THEN CallRaise(c, "ValueError", "Must provide description or image")
    ELSE IF ~Truthy(c.category)
    THEN CallRaise(c, "ValueError", "Category is required")
    ELSE LET has_text == Truthy(c.description) /\ c.use_prompt
             has_image == Truthy(c.image_path) /\ c.use_image
         IN  IF has_text /\ has_image THEN [c EXCEPT !.pc = "hybrid"]
             ELSE IF has_text THEN [c EXCEPT !.pc = "text"]
             ELSE IF has_image THEN [c EXCEPT !.pc = "image"]
             ELSE CallRaise(c, "ValueError", "No valid input mode selected")

\* generate_family_from_prompt: get_template_catalog finds a template or
\* none; with none it raises ValueError, otherwise building the parameters
\* of execute_aps_workitem raises KeyError (dimensions has no "width_unit")
\* before the call is made.  None of its awaits suspends.
generate_family_from_prompt(c, found) ==
    [c EXCEPT !.nLookup = @ + 1, !.promptFound = found,
              !.promptErr = IF found THEN "KeyError" ELSE "ValueError"]

\* generate_family_from_image: strip_exif_pii raises for a missing or an
\* unreadable file; then generate_3d_from_image (a stub) returns, and
\* get_template_catalog finds a template or none; with none it raises
\* ValueError, otherwise building the parameters of execute_aps_workitem
\* raises TypeError (** of a list) before the call is made.
generate_family_from_image(c, file, found) ==
    IF file = "missing"
    THEN [c EXCEPT !.nImage = @ + 1, !.imageErr = "FileNotFoundError"]
    ELSE IF file = "unreadable"
    THEN [c EXCEPT !.nImage = @ + 1, !.imageErr = "OSError"]
    ELSE [c EXCEPT !.nImage = @ + 1, !.nLookup = @ + 1, !.imageFound = found,
                   !.imageErr = IF found THEN "TypeError" ELSE "ValueError"]

\* ------------------------------------------------- the template catalog
\* Strings of the catalog: str.strip() and str.lower() on the texts that
\* occur as a category filter or as a template's category.
strip(s) ==
    CASE s = " chair " -> "chair"
      [] s = "Furniture " -> "Furniture"
      [] s = " " -> ""
      [] OTHER -> s

lower(s) ==
    CASE s = "Furniture" -> "furniture"
      [] s = "FURNITURE" -> "furniture"
      [] s = "Cabinet" -> "cabinet"
      [] s = "Casework" -> "casework"
      [] s = "LIGHTING" -> "lighting"
      [] s = "Lighting Fixtures" -> "lighting fixtures"
      [] s = "Specialty Equipment" -> "specialty equipment"
      [] s = "Plumbing Fixtures" -> "plumbing fixtures"
      [] s = "Electrical Equipment" -> "electrical equipment"
      [] s = "Mechanical Equipment" -> "mechanical equipment"
      [] s = "Generic Models" -> "generic models"
      [] s = "Doors" -> "doors"
      [] OTHER -> s

\* CATEGORY_MAPPINGS, keys to standard Revit categories.
CATEGORY_MAPPINGS ==
    [k \in {"furniture", "chair", "chairs", "table", "tables", "desk", "desks",
            "seating", "sofa", "couch"} |-> "Furniture"]
    @@ [k \in {"casework", "cabinet", "cabinets", "shelving", "counter",
               "counters"} |-> "Casework"]
    @@ [k \in {"lighting", "light", "lights", "lighting fixtures", "lamp",
               "lamps"} |-> "Lighting Fixtures"]
    @@ [k \in {"specialty equipment", "equipment", "appliance",
               "appliances"} |-> "Specialty Equipment"]
    @@ [k \in {"plumbing", "plumbing fixtures", "sink", "sinks", "toilet",
               "toilets"} |-> "Plumbing Fixtures"]
    @@ [k \in {"electrical", "electrical equipment"} |-> "Electrical Equipment"]
    @@ [k \in {"mechanical", "mechanical equipment", "hvac"}
          |-> "Mechanical Equipment"]
    @@ [k \in {"generic", "generic model", "generic models"} |-> "Generic Models"]

\* normalize_category
normalize_category(category) ==
    IF ~Truthy(category) THEN "Generic Models"
    ELSE LET normalized == lower(strip(category))
         IN  IF normalized \in DOMAIN CATEGORY_MAPPINGS
             THEN CATEGORY_MAPPINGS[normalized]
             ELSE "Generic Models"

\* TemplateMetadata: the fields the listing depends on (revit_version has
\* the default "2025"); the url is base_url/2025/<file>.
TemplateMetadata(id, category, file) ==
    [id |-> id, category |-> category, file |-> file, revit_version |-> "2025"]

\* _initialize_default_catalog: default_templates
default_templates ==
    << TemplateMetadata("generic_model_v1", "Generic Models", "Generic_Model.rft"),
       TemplateMetadata("furniture_v1", "Furniture", "Furniture.rft"),
       TemplateMetadata("casework_v1", "Casework", "Casework.rft"),
       TemplateMetadata("lighting_v1", "Lighting Fixtures", "Lighting_Fixture.rft"),
       TemplateMetadata("specialty_equipment_v1", "Specialty Equipment",
                        "Specialty_Equipment.rft"),
       TemplateMetadata("plumbing_v1", "Plumbing Fixtures", "Plumbing_Fixture.rft"),
       TemplateMetadata("electrical_v1", "Electrical Equipment",
                        "Electrical_Equipment.rft"),
       TemplateMetadata("mechanical_v1", "Mechanical Equipment",
                        "Mechanical_Equipment.rft") >>

\* A key of the dict self.templates: a template id, or "category:" followed
\* by a lower-case category.
IdKey(id) == [prefix |-> "", rest |-> id]
CategoryKey(category) == [prefix |-> "category:", rest |-> lower(category)]

\* The dict self.templates is the sequence of its items in insertion order.
HasKey(templates, key) == \E k \in 1 .. Len(templates) : templates[k].key = key

\* self.templates[key] = template
SetItem(templates, key, template) ==
    IF HasKey(templates, key)
    THEN [k \in 1 .. Len(templates) |->
            IF templates[k].key = key
            THEN [key |-> key, value |-> template] ELSE templates[k]]
    ELSE Append(templates, [key |-> key, value |-> template])

\* TemplateCatalog.add_template
add_template(templates, template) ==
    LET t1 == SetItem(templates, IdKey(template.id), template)
        category_key == CategoryKey(template.category)
    IN  IF ~HasKey(t1, category_key) THEN SetItem(t1, category_key, template)
        ELSE t1

\* _initialize_default_catalog: for template in default_templates: add_template
RECURSIVE AddAll(_, _, _)
AddAll(templates, seq, k) ==
    IF k > Len(seq) THEN templates
    ELSE AddAll(add_template(templates, seq[k]), seq, k + 1)

\* TemplateCatalog(base_url)
TemplateCatalog(base_url) ==
    [base_url |-> base_url, templates |-> AddAll(<<>>, default_templates, 1)]

\* _catalog = None
NoCatalog == [base_url |-> None, templates |-> <<>>]

\* get_catalog: the global catalog is created by the first call only.
get_catalog(catalog, base_url) ==
    IF catalog = NoCatalog THEN TemplateCatalog(base_url) ELSE catalog

\* A listing that does not skip the category index.
RECURSIVE list_templates_WithIndex(_, _, _, _)
list_templates_WithIndex(templates, category, revit_version, k) ==
    IF k > Len(templates) THEN <<>>
    ELSE LET template == templates[k].value
             rest == list_templates_WithIndex(templates, category, revit_version, k + 1)
         IN  IF Truthy(category) /\ lower(template.category) # lower(category)
             THEN rest
             ELSE IF Truthy(revit_version)
                     /\ template.revit_version # revit_version
             THEN rest
             ELSE <<template>> \o rest

\* TemplateCatalog.list_templates, from the k-th item of self.templates on
RECURSIVE list_templates(_, _, _, _)
list_templates(templates, category, revit_version, k) ==
    IF k > Len(templates) THEN <<>>
    ELSE LET tid == templates[k].key
             template == templates[k].value
             rest == list_templates(templates, category, revit_version, k + 1)
         IN  IF tid.prefix = "category:" THEN rest
             ELSE IF Truthy(category) /\ lower(template.category) # lower(category)
             THEN rest
             ELSE IF Truthy(revit_version)
                     /\ template.revit_version # revit_version
             THEN rest
             ELSE <<template>> \o rest

\* get_template_catalog: the dict made of a template (its id, url, category
\* and version; the other entries are copies of fields or constants).
TemplateDict(catalog, t) ==
    [template_id |-> t.id,
     template_url |-> <<catalog.base_url, "2025", t.file>>,
     category |-> t.category,
     revit_version |-> t.revit_version]

\* get_template_catalog(catalog_url, revit_version, category_filter) on the
\* catalog get_catalog returned
get_template_catalog(catalog, revit_version, category_filter) ==
    LET normalized_category ==
            IF Truthy(category_filter) THEN normalize_category(category_filter)
            ELSE None
        templates == list_templates(catalog.templates, normalized_category,
                                    revit_version, 1)
    IN  [k \in 1 .. Len(templates) |-> TemplateDict(catalog, templates[k])]

\* What callers pass: a catalog url, a version, a category filter.
CatalogUrls == {"https://a/templates", "https://b/templates"}
RevitVersions == {"2024", "2025"}
CategoryFilters ==
    {None, "", " ", "Furniture", "furniture", "FURNITURE", "Furniture ",
     " chair ", "chair", "desk", "sofa", "Cabinet", "Casework", "counter",
     "LIGHTING", "Lighting Fixtures", "lamp", "equipment", "Specialty Equipment",
     "sink", "Plumbing Fixtures", "electrical", "Electrical Equipment", "hvac",
     "Mechanical Equipment", "generic", "Generic Models", "Doors", "doors"}

NoListing == [catalog_url |-> None, revit_version |-> None,
              category_filter |-> None, n |-> 0, result |-> <<>>]

\* ------------------------------------------------- database migrations
\* The migration files are NNN_name.sql; a file is known by its number NNN,
\* which stands for its filename (the migration_name of its row), and its
\* content by its checksum: 1 as created, 2 once edited, 0 for no file.
Filenames == 1 .. MaxMigrations

\* No file in MIGRATIONS_DIR, no row in archon_migrations.
Nothing == [f \in Filenames |-> 0]

\* MigrationRunner.discover_migrations: the files, sorted by number, each
\* with the checksum of its present content.
RECURSIVE discover_migrations(_, _)
discover_migrations(dir, n) ==
    IF n > MaxMigrations THEN <<>>
    ELSE (IF dir[n] # 0
          THEN <<[filename |-> n, number |-> n, checksum |-> dir[n]]>>
          ELSE <<>>)
         \o discover_migrations(dir, n + 1)

\* MigrationRunner.get_applied_migrations: migration_name -> checksum of the
\* rows of archon_migrations.
get_applied_migrations(table) == {f \in Filenames : table[f] # 0}

\* A choice of the pending migrations that takes a modified one to be pending.
get_pending_migrations_RerunModified(dir, table) ==
    LET applied == get_applied_migrations(table)
        IsPending(migration) ==
            \/ migration.filename \notin applied
            \/ table[migration.filename] # migration.checksum
    IN  SelectSeq(discover_migrations(dir, 1), IsPending)

\* MigrationRunner.get_pending_migrations: a migration whose filename has no
\* row is pending; one that has a row is not, whether its checksum is the
\* recorded one or not (a changed checksum is warned about).
get_pending_migrations(dir, table) ==
    LET applied == get_applied_migrations(table)
        IsPending(migration) == migration.filename \notin applied
    IN  SelectSeq(discover_migrations(dir, 1), IsPending)

\* MigrationRunner.apply_migration, when nothing raises: the SQL is executed
\* and INSERT ... ON CONFLICT (version, migration_name) DO NOTHING records it.
apply_migration(table, migration) ==
    IF table[migration.filename] = 0
    THEN [table EXCEPT ![migration.filename] = migration.checksum]
    ELSE table

\* migrate_up: for migration in pending: self.apply_migration(migration), for
\* the first k of them.
RECURSIVE ApplyFirst(_, _, _)
ApplyFirst(table, pending, k) ==
    IF k = 0 THEN table
    ELSE apply_migration(ApplyFirst(table, pending, k - 1), pending[k])

\* The last call of migrate_up: how many calls there were, its dry_run, the migrations on which
\* cur.execute(sql_content) was called, whether it returned; settled says that
\* a migrate_up has applied everything and no file or row was added or
\* removed since.
NoRun == [n |-> 0, dry_run |-> FALSE, ran |-> <<>>, ok |-> FALSE,
          settled |-> FALSE]

\* MigrationRunner.migrate_up(dry_run), where the SQL of the first k pending
\* migrations succeeds and that of the next one, if there is one, raises:
\* apply_migration rolls that one back and re-raises, the ones before it stay
\* committed.
migrate_up(dir, table, run, dry_run, k) ==
    LET pending == get_pending_migrations(dir, table)
    IN  IF dry_run
        THEN [table |-> table,
              run |-> [run EXCEPT !.n = @ + 1, !.dry_run = TRUE,
                                  !.ran = <<>>, !.ok = TRUE]]
        ELSE [table |-> ApplyFirst(table, pending, k),
              run |-> [n |-> run.n + 1, dry_run |-> FALSE,
                       ran |-> SubSeq(pending, 1, Min(k + 1, Len(pending))),
                       ok |-> k = Len(pending),
                       settled |-> k = Len(pending)]]

\* create_migration: max([m.number for m in existing], default=0) + 1
next_number(dir) ==
    LET existing == {n \in Filenames : dir[n] # 0}
    IN  IF existing = {} THEN 1
        ELSE (CHOOSE n \in existing : \A m \in existing : m <= n) + 1

\* MigrationRunner.create_migration: the new file, as created
create_migration(dir) == [dir EXCEPT ![next_number(dir)] = 1]

\* --------------------------------------------------- the client singleton
\* _aps_client = None
NoClient == [id |-> 0, client_id |-> None, client_secret |-> None,
             region |-> None, _token |-> NoToken]

\* APSClient(client_id, client_secret, region), the id-th instance created
APSClient(id, client_id, client_secret, region) ==
    [id |-> id, client_id |-> client_id, client_secret |-> client_secret,
     region |-> region, _token |-> NoToken]

\* A singleton that is replaced when any of the arguments differs.
get_aps_client_PerArguments(client, made, client_id, client_secret, region) ==
    IF client = NoClient \/ client.client_id # client_id
       \/ client.client_secret # client_secret \/ client.region # region
    THEN APSClient(made + 1, client_id, client_secret, region)
    ELSE client

\* get_aps_client: the value of _aps_client after the call, which is what
\* the call returns; made instances have been created before.
get_aps_client(client, made, client_id, client_secret, region) ==
    IF client = NoClient \/ client.client_id # client_id
    THEN APSClient(made + 1, client_id, client_secret, region)
    ELSE client

\* What execute_aps_workitem may be called with.
ClientIds == {"id-a", "id-b"}
ClientSecrets == {"secret-1", "secret-2"}
Regions == {"us-east", "eu-west"}

NoGet == [n |-> 0, client_id |-> None, client_secret |-> None, region |-> None,
          returned |-> NoClient, made |-> 0]

\* ------------------------------------------------------------- a caller
\* pc names the await the caller is suspended in:
\*   start          about to call its entry point, at time wake
\*   auth_post      authenticate: await client.post(token url)
\*   auth_backoff   authenticate: tenacity's sleep before the next attempt
\*   submit_post    create_workitem: await client.post(workitems)
\*   status_get     get_workitem_status: await client.get(workitem)
\*   status_backoff get_workitem_status: tenacity's sleep before the next attempt
\*   poll_sleep     poll_workitem: await asyncio.sleep(poll_interval)
\*   download       download_file: await client.get(url)
\*   exec_backoff   execute_aps_workitem: tenacity's sleep before the next attempt
\*   done           the entry point returned or raised
\*   idle           the caller is not part of this run
InitTask(active, entry, mw) ==
    [pc |-> IF active THEN "start" ELSE "idle",
     entry |-> entry,           \* the method of the client the caller calls
     calls |-> 0,               \* how often it has called it
     wake |-> 0,
     max_wait |-> mw,
     poll_interval |-> DEFAULT_POLL_INTERVAL,
     site |-> None,             \* who awaits authenticate: a method, or the caller
     exec_attempt |-> 0,
     auth_attempt |-> 0,
     status_attempt |-> 0,
     token |-> 0,               \* access_token of the local `token`
     start_time |-> 0,
     last_status |-> None,
     nNote |-> 0,               \* status updates printed
     lastNoted |-> None,        \* the status last printed
     status |-> NoStatus,       \* the last status response / final_status
     pending |-> <<>>,          \* arguments still to download
     outputs |-> <<>>,          \* output_name -> content
     outcome |-> "none",        \* none | return | raise
     err |-> NoErr,
     \* observations of what the caller did
     nExchange |-> 0,           \* token requests issued
     nSubmit |-> 0,             \* workitem POSTs issued
     nSubmitDone |-> 0,         \* workitem POSTs answered or failed
     nQuery |-> 0,              \* status GETs issued
     nQueryDone |-> 0,          \* status GETs answered or failed
     nResp |-> 0,               \* status responses received
     nSleep |-> 0,              \* inter-poll sleeps started
     nDownload |-> 0,           \* download GETs issued
     qstart |-> 0,              \* when the current get_workitem_status call began
     qAtPoll |-> 0,             \* status GETs issued before that call
     statusErr |-> None,        \* what the last failed status GET raised
     recovered |-> FALSE,       \* the call's response came on a repeated attempt
     qdur |-> 0,                \* how long the last get_workitem_status call took
     end_time |-> 0,            \* when poll_workitem returned or raised
     polled |-> "none",         \* how poll_workitem ended: none | return | raise
     onlyInprogress |-> TRUE,   \* every get_workitem_status call so far returned "inprogress"
     firstSuccess |-> 0,        \* index of the first response reporting "success"
     cause |-> None,            \* why the entry point raised
     rejected |-> None,         \* where authenticate was awaited at the first HTTP-error exchange
     exchAtReject |-> 0,        \* token requests issued up to that exchange
     nExchFailed |-> 0,         \* token requests that failed
     nToken |-> 0,              \* tokens authenticate has returned to it
     seen |-> 0,                \* access_token cached when its exchange was issued
     stale |-> {},              \* the tokens cached when an exchange of its failed
     cancelledAt |-> None,      \* the await the task was cancelled in
     recording |-> FALSE,       \* whether hist is kept
     hist |-> <<>>,             \* the responses it has received, in order
     failures |-> {},           \* why the attempts of execute_aps_workitem so far raised
     resubmittedAfter |-> {}]   \* the failures that a later workitem POST followed

\* A retry that is also taken for a cancellation.
ExecRetries_AlsoCancelled(e) == TRUE

\* execute_aps_workitem's @retry has no retry= argument: tenacity retries on
\* every Exception.  asyncio.CancelledError is a BaseException, not an
\* Exception, and is raised through.
ExecRetries(e) == e.type # CancelledError.type

\* An attempt of execute_aps_workitem raised e: tenacity sleeps and calls the
\* function again, raises RetryError after the third attempt, or lets e pass.
ExecRaise(r, t, e, cause) ==
    LET r1 == [r EXCEPT !.failures = @ \cup {cause}, !.cause = cause]
    IN  IF ~ExecRetries(e)
        THEN [r1 EXCEPT !.pc = "done", !.outcome = "raise", !.err = e]
        ELSE IF r.exec_attempt < EXEC_ATTEMPTS
        THEN [r1 EXCEPT !.pc = "exec_backoff",
                        !.wake = t + wait_exponential(r.exec_attempt,
                                                      EXEC_WAIT_MIN, EXEC_WAIT_MAX)]
        ELSE [r1 EXCEPT !.pc = "done", !.outcome = "raise",
                        !.err = ExecRetryError(e.type)]

\* create_workitem_and_wait raises e (any exception of an awaited call
\* propagates unchanged: there is no try/except in aps_client.py), to its
\* caller or to execute_aps_workitem.
RunRaise(r, t, e, cause) ==
    IF r.entry = "execute_aps_workitem"
    THEN ExecRaise(r, t, e, cause)
    ELSE [r EXCEPT !.pc = "done", !.outcome = "raise", !.err = e, !.cause = cause]

\* execute_aps_workitem: `not rfa_content` holds for a missing output and for
\* an output of no bytes.
HasContent(outputs, name) == name \in DOMAIN outputs /\ outputs[name] = "bytes"

\* create_workitem_and_wait: return final_status, outputs; execute_aps_workitem
\* then looks for its two outputs.
RunReturn(r, t) ==
    IF r.entry = "execute_aps_workitem"
       /\ ~(HasContent(r.outputs, "outputFamily")
            /\ HasContent(r.outputs, "outputManifest"))
    THEN ExecRaise(r, t, MissingOutputs, "incomplete")
    ELSE [r EXCEPT !.pc = "done", !.outcome = "return"]

\* poll_workitem raises e
PollRaise(r, t, e, cause) ==
    RunRaise([r EXCEPT !.end_time = t, !.polled = "raise"], t, e, cause)

\* download_file: await client.get(url), d the round trip's duration
IssueDownload(r, t, d) ==
    [r EXCEPT !.pc = "download", !.wake = t + d, !.nDownload = @ + 1]

\* create_workitem_and_wait, the loop over final_status["arguments"]
NextDownload(r, t, d) ==
    IF r.pending = <<>> THEN RunReturn(r, t) ELSE IssueDownload(r, t, d)

\* A loop over every declared argument, whether the final status holds a url
\* for it or not.
Downloads_AllArguments(r, t, d) ==
    NextDownload([r EXCEPT !.pending = ArgOrder, !.outputs = <<>>], t, d)

\* create_workitem_and_wait after poll_workitem returned final_status
Downloads(r, t, d) ==
    NextDownload([r EXCEPT !.pending = UrlSeq(r.status.urls, 1),
                           !.outputs = <<>>], t, d)

\* A submission that is sent but not awaited: the run goes straight on to
\* its first status query.
IssueSubmit_NotAwaited(r, t, d) ==
    [r EXCEPT !.pc = "status_get", !.wake = t + d, !.nSubmit = @ + 1,
              !.nQuery = @ + 1]

\* create_workitem: await client.post(.../workitems, headers=_headers(token))
IssueSubmit(r, t, d) ==
    [r EXCEPT !.pc = "submit_post", !.wake = t + d, !.nSubmit = @ + 1,
              !.resubmittedAfter = @ \cup r.failures]

\* get_workitem_status: await client.get(.../workitems/{id}, headers=_headers(token))
IssueStatusGet(r, t, d) ==
    [r EXCEPT !.pc = "status_get", !.wake = t + d, !.nQuery = @ + 1]

\* authenticate returned a token to whoever awaited it
AfterAuth(r, t, d) ==
    IF r.site = "create_workitem" THEN IssueSubmit(r, t, d)
    ELSE IF r.site = "get_workitem_status" THEN IssueStatusGet(r, t, d)
    ELSE RunReturn(r, t)

\* authenticate: await client.post(token url, data=client credentials)
IssueExchange(r, t, d) ==
    [r EXCEPT !.pc = "auth_post", !.wake = t + d, !.nExchange = @ + 1]

\* authenticate, one attempt: the cache check, then the exchange
authenticate(r, t, tk, d) ==
    IF tk # NoToken /\ ~is_expired(tk, t)
    THEN AfterAuth([r EXCEPT !.token = tk.access_token, !.nToken = @ + 1], t, d)
    ELSE IssueExchange([r EXCEPT !.seen = tk.access_token], t, d)

\* get_workitem_status, one attempt: token = await self.authenticate()
get_workitem_status(r, t, tk, d) ==
    authenticate([r EXCEPT !.site = "get_workitem_status", !.auth_attempt = 1],
                 t, tk, d)

\* A loop without a deadline.
PollContinue_NoDeadline(t, start_time, max_wait) == TRUE

\* A loop test that gives up one poll interval early.
PollContinue_EarlyTimeout(t, start_time, max_wait) ==
    t - start_time < max_wait - DEFAULT_POLL_INTERVAL

\* poll_workitem: while time.time() - start_time < max_wait
PollContinue(t, start_time, max_wait) == t - start_time < max_wait

\* poll_workitem, the top of the loop
PollLoop(r, t, tk, d) ==
    IF PollContinue(t, r.start_time, r.max_wait)
    THEN get_workitem_status([r EXCEPT !.status_attempt = 1, !.qstart = t,
                                       !.qAtPoll = r.nQuery,
                                       !.recovered = FALSE],
                             t, tk, d)
    ELSE PollRaise([r EXCEPT !.recovered = FALSE], t, WorkItemTimeout, "timeout")

\* poll_workitem: start_time = time.time(); last_status = None
poll_workitem(r, t, tk, d) ==
    PollLoop([r EXCEPT !.start_time = t, !.last_status = None], t, tk, d)

\* create_workitem: token = await self.authenticate()
create_workitem(r, t, tk, d) ==
    authenticate([r EXCEPT !.site = "create_workitem", !.auth_attempt = 1],
                 t, tk, d)

\* create_workitem_and_wait: workitem = await self.create_workitem(...)
create_workitem_and_wait(r, t, tk, d) == create_workitem(r, t, tk, d)

\* get_workitem_status raised e to poll_workitem, which does not catch it
StatusRaise(r, t, e, cause) ==
    PollRaise([r EXCEPT !.qdur = t - r.qstart, !.onlyInprogress = FALSE],
              t, e, cause)

\* A retry that is taken for every exception.
StatusRetries_Any(x) == TRUE

\* get_workitem_status: retry=retry_if_exception_type(httpx.RequestError)
StatusRetries(x) == x = "RequestError"

\* get_workitem_status: the GET, or raise_for_status, raised x.  tenacity
\* sleeps and calls the method again if it retries x and attempts are left,
\* raises RetryError if it retries x and none is left, and lets x pass
\* otherwise.
StatusFailed(r, t, x) ==
    LET r1 == [r EXCEPT !.statusErr = x]
    IN  IF ~StatusRetries(x)
        THEN StatusRaise(r1, t, StatusHttpStatusError, "status")
        ELSE IF r.status_attempt < STATUS_ATTEMPTS
        THEN [r1 EXCEPT !.pc = "status_backoff",
                        !.wake = t + wait_exponential(r.status_attempt,
                                                      STATUS_WAIT_MIN, STATUS_WAIT_MAX)]
        ELSE StatusRaise(r1, t, StatusRetryError, "network")

\* authenticate raised e (its attempts are used up) to the method awaiting it:
\* create_workitem does not catch it; get_workitem_status retries only
\* httpx.RequestError, which tenacity's RetryError is not.
AuthRaise(r, t, e, cause) ==
    IF r.site = "get_workitem_status" THEN StatusRaise(r, t, e, cause)
    ELSE RunRaise(r, t, e, cause)

\* Comparisons with a misspelt status.
IsSuccess_Misspelt(s) == s = "Success"
IsFailed_LowerCase(s) == s = "failedinstructions"
IsCancelled_OneL(s) == s = "canceled"

\* A comparison that takes every spelling of a failure for the failed status.
IsFailed_AnyCase(s) == s \in {"failedInstructions", "failedinstructions"}

\* poll_workitem: current_status == "success"
IsSuccess(s) == s = "success"
\* poll_workitem: current_status == "failedInstructions"
IsFailed(s) == s = "failedInstructions"
\* poll_workitem: current_status == "cancelled"
IsCancelled(s) == s = "cancelled"

\* A status update printed on every poll.
Notify_EveryPoll(r, current_status) ==
    [r EXCEPT !.nNote = @ + 1, !.lastNoted = current_status,
              !.last_status = current_status]

\* poll_workitem: if current_status != last_status: print(...);
\* last_status = current_status
Notify(r, current_status) ==
    IF current_status # r.last_status
    THEN [r EXCEPT !.nNote = @ + 1, !.lastNoted = current_status,
                   !.last_status = current_status]
    ELSE r

\* poll_workitem, the body of the loop after get_workitem_status returned resp
PollBody(r, t, resp, d) ==
    LET r0 == Notify(r, resp.status)
        r1 == [r0 EXCEPT !.status = resp,
                        !.nResp = @ + 1,
                        !.qdur = t - r.qstart,
                        !.onlyInprogress = @ /\ resp.status = "inprogress",
                        !.firstSuccess = IF @ = 0 /\ resp.status = "success"
                                         THEN r.nResp + 1 ELSE @]
    IN  IF IsSuccess(resp.status)
        THEN Downloads([r1 EXCEPT !.end_time = t, !.polled = "return"], t, d)
        ELSE IF IsFailed(resp.status)
        THEN PollRaise(r1, t, WorkItemFailed(resp.reportUrl), "execution")
        ELSE IF IsCancelled(resp.status)
        THEN PollRaise(r1, t, WorkItemCancelled, "cancellation")
        ELSE [r1 EXCEPT !.pc = "poll_sleep", !.wake = t + r.poll_interval,
                        !.nSleep = @ + 1]


\* The caller receives a response: of which request, what it was, and for a
\* granted token its expires_in, for a status response its content.
Heard(r, kind, what, n, resp) ==
    IF r.recording
    THEN [r EXCEPT !.hist = Append(@, [kind |-> kind, what |-> what,
                                       n |-> n, resp |-> resp])]
    ELSE r

\* ------------------------------------------------------------- actions
\* Caller i's await is the earliest pending completion.
Resumes(i) ==
    /\ task[i].pc \notin {"idle", "done"}
    /\ \A j \in Callers :
          task[j].pc \notin {"idle", "done"} => task[i].wake <= task[j].wake

\* A step that keeps the downloaded outputs in one place for all callers.
Step_SharedOutputs(i, r) ==
    /\ now' = task[i].wake
    /\ task' = [j \in Callers |->
                  IF j = i THEN r ELSE [task[j] EXCEPT !.outputs = r.outputs]]
    /\ UNCHANGED <<rtt, call, others>>

\* Caller i runs from its await to the next one, ending with locals r.
Step(i, r) ==
    /\ now' = task[i].wake
    /\ task' = [task EXCEPT ![i] = r]
    /\ UNCHANGED <<rtt, call, others>>

\* The request the caller awaited succeeded / failed.
NoFault == UNCHANGED faultsLeft
Fault == faultsLeft > 0 /\ faultsLeft' = faultsLeft - 1

\* The caller enters execute_aps_workitem (first attempt),
\* create_workitem_and_wait, or authenticate.
Start(i) ==
    /\ Resumes(i) /\ task[i].pc = "start"
    /\ LET r == [task[i] EXCEPT !.calls = @ + 1, !.outcome = "none", !.err = NoErr,
                                !.exec_attempt = 1]
       IN  IF r.entry = "authenticate"
           THEN Step(i, authenticate([r EXCEPT !.site = "caller", !.auth_attempt = 1],
                                     r.wake, _token, rtt))
           ELSE Step(i, create_workitem_and_wait(r, r.wake, _token, rtt))
    /\ UNCHANGED <<_token, issued, validUntil, faultsLeft>>

\* The frame of a new attempt of execute_aps_workitem: the locals start
\* afresh, and so do the observations of one create_workitem_and_wait.
Attempt(r) ==
    [InitTask(TRUE, r.entry, r.max_wait) EXCEPT
        !.calls = r.calls, !.exec_attempt = r.exec_attempt + 1,
        !.nExchange = r.nExchange, !.nSubmit = r.nSubmit,
        !.nSubmitDone = r.nSubmitDone, !.nToken = r.nToken,
        !.nExchFailed = r.nExchFailed, !.stale = r.stale,
        !.rejected = r.rejected, !.exchAtReject = r.exchAtReject,
        !.failures = r.failures, !.resubmittedAfter = r.resubmittedAfter]

\* execute_aps_workitem: tenacity calls the function again after its sleep;
\* it builds the arguments and awaits create_workitem_and_wait anew.
ExecRetry(i) ==
    /\ Resumes(i) /\ task[i].pc = "exec_backoff"
    /\ Step(i, create_workitem_and_wait(Attempt(task[i]), task[i].wake, _token, rtt))
    /\ UNCHANGED <<_token, issued, validUntil, faultsLeft>>

\* A caller of authenticate() calls it again one poll interval after its last
\* call ended, as get_workitem_status does on every poll.
CallAgain(i) ==
    /\ task[i].pc = "done" /\ task[i].entry = "authenticate"
    /\ task[i].calls < MaxCalls
    /\ task' = [task EXCEPT ![i].pc = "start",
                            ![i].wake = now + DEFAULT_POLL_INTERVAL]
    /\ UNCHANGED <<now, _token, issued, validUntil, rtt, faultsLeft, call, others>>

\* A failed exchange that renews the credential it found in the cache.
FailedExchangeCache_Renews(tk, t) ==
    IF tk = NoToken THEN tk ELSE [tk EXCEPT !.expires_at = t + DEFAULT_EXPIRES_IN]

\* authenticate: the request or raise_for_status raises before self._token is
\* assigned, so a failed exchange leaves self._token as it was.
FailedExchangeCache(tk, t) == tk

\* authenticate: the endpoint answers 2xx with expires_in = e; the token is
\* stored in self._token and returned.
AuthGranted(i) ==
    /\ Resumes(i) /\ task[i].pc = "auth_post"
    /\ \E e \in ExpiresIn :
          LET t == task[i].wake
              tk == [access_token |-> issued + 1, expires_at |-> t + e]
          IN  /\ _token' = tk
              /\ issued' = issued + 1
              /\ validUntil' = Max(validUntil, t + e - SAFETY_MARGIN)
              /\ Step(i, AfterAuth([Heard(task[i], "token", "granted", e, NoStatus)
                                       EXCEPT !.token = tk.access_token,
                                                   !.nToken = @ + 1],
                                   t, rtt))
    /\ NoFault

\* authenticate: raise_for_status raises httpx.HTTPStatusError, or the request
\* raises httpx.RequestError; tenacity retries both, and raises RetryError
\* after the third attempt (reraise is not set).
AuthFailed(i) ==
    /\ Resumes(i) /\ task[i].pc = "auth_post"
    /\ \E x \in {"HTTPStatusError", "RequestError"} :
          LET t == task[i].wake
              r == [Heard(task[i], "token", x, 0, NoStatus) EXCEPT
                      !.rejected = IF @ = None /\ x = "HTTPStatusError"
                                   THEN task[i].site ELSE @,
                      !.exchAtReject = IF task[i].rejected = None
                                          /\ x = "HTTPStatusError"
                                       THEN task[i].nExchange ELSE @,
                      !.nExchFailed = @ + 1,
                      !.stale = IF task[i].seen = 0 THEN @
                                ELSE @ \cup {task[i].seen}]
          IN  IF r.auth_attempt < AUTH_ATTEMPTS
              THEN Step(i, [r EXCEPT
                      !.pc = "auth_backoff",
                      !.wake = t + wait_exponential(r.auth_attempt,
                                                    AUTH_WAIT_MIN, AUTH_WAIT_MAX)])
              ELSE Step(i, AuthRaise(r, t, AuthRetryError(x),
                        IF x = "HTTPStatusError" THEN "authentication"
                        ELSE "network"))
    /\ Fault
    /\ _token' = FailedExchangeCache(_token, task[i].wake)
    /\ UNCHANGED <<issued, validUntil>>

\* authenticate: tenacity calls the method again after its sleep.
AuthRetry(i) ==
    /\ Resumes(i) /\ task[i].pc = "auth_backoff"
    /\ Step(i, authenticate([task[i] EXCEPT !.auth_attempt = @ + 1],
                            task[i].wake, _token, rtt))
    /\ UNCHANGED <<_token, issued, validUntil, faultsLeft>>

\* create_workitem: the service answers 2xx with the workitem's id;
\* create_workitem_and_wait goes on to poll_workitem.
SubmitAccepted(i) ==
    /\ Resumes(i) /\ task[i].pc = "submit_post"
    /\ Step(i, poll_workitem([Heard(task[i], "submit", "accepted", 0, NoStatus)
                                  EXCEPT !.nSubmitDone = @ + 1],
                              task[i].wake, _token, rtt))
    /\ NoFault
    /\ UNCHANGED <<_token, issued, validUntil>>

\* create_workitem: raise_for_status or the request raises; nothing retries.
SubmitFailed(i) ==
    /\ Resumes(i) /\ task[i].pc = "submit_post"
    /\ \E x \in {"HTTPStatusError", "RequestError"} :
          Step(i, RunRaise([Heard(task[i], "submit", x, 0, NoStatus)
                               EXCEPT !.nSubmitDone = @ + 1],
                           task[i].wake, SubmitError(x),
                  IF x = "HTTPStatusError" THEN "submission" ELSE "network"))
    /\ Fault
    /\ UNCHANGED <<_token, issued, validUntil>>

\* What a 2xx status response may hold.  The caller reads urls only on
\* success and reportUrl only on failedInstructions.
StatusResponses ==
    {[status |-> s, urls |-> {}, reportUrl |-> None] :
        s \in Statuses \ {"success", "failedInstructions"}}
    \cup {[status |-> "success", urls |-> u, reportUrl |-> None] :
        u \in SUBSET ArgNames}
    \cup {[status |-> "failedInstructions", urls |-> {}, reportUrl |-> rep] :
        rep \in {None, "reportUrl"}}

\* get_workitem_status returns response.json() to poll_workitem.
StatusReceived(i) ==
    /\ Resumes(i) /\ task[i].pc = "status_get"
    /\ \E resp \in StatusResponses :
          Step(i, PollBody([Heard(task[i], "status", "answered", 0, resp)
                               EXCEPT !.nQueryDone = @ + 1,
                                           !.recovered = task[i].status_attempt > 1],
                           task[i].wake, resp, rtt))
    /\ NoFault
    /\ UNCHANGED <<_token, issued, validUntil>>

\* get_workitem_status: raise_for_status raises httpx.HTTPStatusError,
\* which tenacity does not retry.
StatusHttpError(i) ==
    /\ Resumes(i) /\ task[i].pc = "status_get"
    /\ Step(i, StatusFailed([Heard(task[i], "status", "HTTPStatusError", 0, NoStatus)
                                 EXCEPT !.nQueryDone = @ + 1],
                             task[i].wake, "HTTPStatusError"))
    /\ Fault
    /\ UNCHANGED <<_token, issued, validUntil>>

\* get_workitem_status: the request raises httpx.RequestError; tenacity
\* retries it, and raises RetryError after the third attempt.
StatusRequestError(i) ==
    /\ Resumes(i) /\ task[i].pc = "status_get"
    /\ Step(i, StatusFailed([Heard(task[i], "status", "RequestError", 0, NoStatus)
                                 EXCEPT !.nQueryDone = @ + 1],
                             task[i].wake, "RequestError"))
    /\ Fault
    /\ UNCHANGED <<_token, issued, validUntil>>

\* get_workitem_status: tenacity calls the method again after its sleep.
StatusRetry(i) ==
    /\ Resumes(i) /\ task[i].pc = "status_backoff"
    /\ Step(i, get_workitem_status([task[i] EXCEPT !.status_attempt = @ + 1],
                                   task[i].wake, _token, rtt))
    /\ UNCHANGED <<_token, issued, validUntil, faultsLeft>>

\* poll_workitem: asyncio.sleep(poll_interval) is over; back to the loop test.
PollWake(i) ==
    /\ Resumes(i) /\ task[i].pc = "poll_sleep"
    /\ Step(i, PollLoop(task[i], task[i].wake, _token, rtt))
    /\ UNCHANGED <<_token, issued, validUntil, faultsLeft>>

\* What a download may yield: some bytes, or no bytes at all.
Contents == {"bytes", "empty"}

\* download_file returned response.content: outputs[output_name] = content.
DownloadReceived(i) ==
    /\ Resumes(i) /\ task[i].pc = "download"
    /\ \E c \in Contents :
          LET r == Heard(task[i], "download", c, 0, NoStatus)
          IN  Step(i, NextDownload(
                  [r EXCEPT !.outputs = (Head(r.pending) :> c) @@ @,
                            !.pending = Tail(@)], r.wake, rtt))
    /\ NoFault
    /\ UNCHANGED <<_token, issued, validUntil>>

\* download_file: raise_for_status or the request raises.
DownloadFailed(i) ==
    /\ Resumes(i) /\ task[i].pc = "download"
    /\ \E x \in {"HTTPStatusError", "RequestError"} :
          Step(i, RunRaise(Heard(task[i], "download", x, 0, NoStatus),
                           task[i].wake, DownloadError(x), "download"))
    /\ Fault
    /\ UNCHANGED <<_token, issued, validUntil>>

\* Suspended inside poll_workitem: in a status query (with its token
\* refresh and its back-off) or in the inter-poll sleep.
Polling(r) ==
    \/ r.pc \in {"status_get", "status_backoff", "poll_sleep"}
    \/ r.pc \in {"auth_post", "auth_backoff"} /\ r.site = "get_workitem_status"

\* The caller's task is cancelled while it is suspended: asyncio throws
\* CancelledError into the coroutine at its await.  No retry decorator on the
\* way out retries it and no frame catches it.
Cancel(i) ==
    /\ task[i].pc \notin {"idle", "start", "done"}
    /\ LET r == [task[i] EXCEPT !.cancelledAt = task[i].pc]
       IN  task' = [task EXCEPT ![i] =
                      IF Polling(r) THEN PollRaise(r, now, CancelledError, "cancel")
                      ELSE RunRaise(r, now, CancelledError, "cancel")]
    /\ UNCHANGED <<now, _token, issued, validUntil, rtt, faultsLeft, call, others>>

\* The tool perform_family_creation is called: it validates its arguments
\* and chooses the mode.
Validate ==
    /\ call.pc = "start"
    /\ call' = perform_family_creation(call)
    /\ UNCHANGED <<now, _token, issued, validUntil, rtt, faultsLeft, task, others>>

\* generate_family_from_prompt runs: awaited directly in text-only mode, as
\* the first task of asyncio.gather in hybrid mode.
GenerateFromPrompt ==
    /\ call.pc \in {"text", "hybrid"} /\ call.promptErr = None
    /\ \E found \in BOOLEAN :
          LET c == generate_family_from_prompt(call, found)
          IN  call' = IF call.pc = "text"
                      THEN CallRaise(c, c.promptErr, "generate_family_from_prompt")
                      ELSE c
    /\ UNCHANGED <<now, _token, issued, validUntil, rtt, faultsLeft, task, others>>

\* generate_family_from_image runs: awaited directly in image-only mode, as
\* the second task of asyncio.gather in hybrid mode (gather does not cancel
\* it when the first task has raised).
GenerateFromImage ==
    /\ \/ call.pc = "image"
       \/ call.pc = "hybrid" /\ call.promptErr # None
    /\ call.imageErr = None
    /\ \E file \in {"missing", "unreadable", "ok"}, found \in BOOLEAN :
          LET c == generate_family_from_image(call, file, found)
          IN  call' = IF call.pc = "image"
                      THEN CallRaise(c, c.imageErr, "generate_family_from_image")
                      ELSE c
    /\ UNCHANGED <<now, _token, issued, validUntil, rtt, faultsLeft, task, others>>

\* await asyncio.gather(...) raises the first exception set on it: that of
\* the task that finished first.
GatherRaises ==
    /\ call.pc = "hybrid" /\ call.promptErr # None /\ call.imageErr # None
    /\ call' = CallRaise(call, call.promptErr, "generate_family_from_prompt")
    /\ UNCHANGED <<now, _token, issued, validUntil, rtt, faultsLeft, task, others>>

\* get_template_catalog(catalog_url, revit_version, category_filter) is
\* called: get_catalog returns the global catalog, creating it on the first
\* call, and the listing is returned.
GetTemplateCatalog ==
    /\ listing.n < MaxListings
    /\ \E catalog_url \in CatalogUrls, revit_version \in RevitVersions,
          category_filter \in CategoryFilters :
          LET catalog == get_catalog(_catalog, catalog_url)
          IN  /\ _catalog' = catalog
              /\ listing' = [catalog_url |-> catalog_url,
                             revit_version |-> revit_version,
                             category_filter |-> category_filter,
                             n |-> listing.n + 1,
                             result |-> get_template_catalog(catalog, revit_version,
                                                             category_filter)]
    /\ UNCHANGED <<apsVars, dbVars, clientVars>>

\* `migrate.py up [--dry-run]`: migrate_up on a connected runner.
MigrateUp ==
    /\ upRun.n < MaxUps
    /\ \E dry_run \in BOOLEAN,
          k \in 0 .. Len(get_pending_migrations(MIGRATIONS_DIR, archon_migrations)) :
          LET res == migrate_up(MIGRATIONS_DIR, archon_migrations, upRun, dry_run, k)
          IN  /\ archon_migrations' = res.table
              /\ upRun' = res.run
    /\ UNCHANGED <<MIGRATIONS_DIR, apsVars, catalogVars, clientVars>>

\* `migrate.py create <name>`: create_migration writes the file with the
\* next number.
CreateMigration ==
    /\ next_number(MIGRATIONS_DIR) \in Filenames
    /\ MIGRATIONS_DIR' = create_migration(MIGRATIONS_DIR)
    /\ upRun' = [upRun EXCEPT !.settled = FALSE]
    /\ UNCHANGED <<archon_migrations, apsVars, catalogVars, clientVars>>

\* A migration file is edited: its content, and so its checksum, changes.
EditMigration ==
    /\ \E n \in Filenames :
          /\ MIGRATIONS_DIR[n] = 1
          /\ MIGRATIONS_DIR' = [MIGRATIONS_DIR EXCEPT ![n] = 2]
    /\ UNCHANGED <<archon_migrations, upRun, apsVars, catalogVars, clientVars>>

\* `migrate.py down <migration>`: rollback of an applied migration that has a
\* rollback file deletes its row.
Rollback ==
    /\ \E n \in Filenames :
          /\ archon_migrations[n] # 0
          /\ archon_migrations' = [archon_migrations EXCEPT ![n] = 0]
    /\ upRun' = [upRun EXCEPT !.settled = FALSE]
    /\ UNCHANGED <<MIGRATIONS_DIR, apsVars, catalogVars, clientVars>>

\* execute_aps_workitem: client = get_aps_client(client_id, client_secret)
\* (the region is the default), or any other call of get_aps_client.
GetApsClient ==
    /\ got.n < MaxGets
    /\ \E client_id \in ClientIds, client_secret \in ClientSecrets,
          region \in Regions :
          LET client == get_aps_client(_aps_client, got.made, client_id,
                                       client_secret, region)
          IN  /\ _aps_client' = client
              /\ got' = [n |-> got.n + 1, client_id |-> client_id,
                         client_secret |-> client_secret, region |-> region,
                         returned |-> client,
                         made |-> Max(got.made, client.id)]
    /\ UNCHANGED <<apsVars, catalogVars, dbVars>>

\* The current instance authenticates and caches the token it is granted.
ClientAuthenticates ==
    /\ _aps_client # NoClient /\ _aps_client._token = NoToken
    /\ _aps_client' = [_aps_client EXCEPT
                          !._token = [access_token |-> _aps_client.id,
                                      expires_at |-> DEFAULT_EXPIRES_IN]]
    /\ UNCHANGED <<got, apsVars, catalogVars, dbVars>>

\* ------------------------------------------------------- specifications
\* No catalog has been created and nothing has been listed.
InitOthers ==
    /\ _catalog = NoCatalog
    /\ listing = NoListing
    /\ MIGRATIONS_DIR = Nothing
    /\ archon_migrations = Nothing
    /\ upRun = NoRun
    /\ _aps_client = NoClient
    /\ got = NoGet

\* The client and the tool are not in use.
InitAps ==
    /\ call = NoCall
    /\ now = 0
    /\ _token = NoToken
    /\ issued = 0
    /\ validUntil = 0
    /\ rtt = 0
    /\ faultsLeft = 0
    /\ task = [i \in Callers |-> InitTask(FALSE, None, 0)]

\* Nothing is in use yet: the modules are imported, the runner of the
\* migrations is connected to a database without migrations.
InitIdle ==
    /\ InitAps
    /\ InitOthers

InitCommon ==
    /\ InitOthers
    /\ call = NoCall
    /\ now = 0
    /\ _token = NoToken
    /\ issued = 0
    /\ validUntil = 0
    /\ rtt \in Latency

\* One caller uses the client (text-only or image-only mode).
Init ==
    /\ InitCommon
    /\ faultsLeft = MaxFaults
    /\ \E mw \in MaxWaits :
          task = [i \in Callers |->
                    InitTask(i = "prompt", "create_workitem_and_wait", mw)]

\* One caller runs execute_aps_workitem; it may cancel the task.
InitExec ==
    /\ InitOthers
    /\ call = NoCall
    /\ now = 0
    /\ _token = NoToken
    /\ issued = 0
    /\ validUntil = 0
    /\ rtt = 0
    /\ faultsLeft = ExecFaults
    /\ task = [i \in Callers |->
                 InitTask(i = "prompt", "execute_aps_workitem", ExecWait)]

\* Both callers run create_workitem_and_wait on the shared client at the
\* same time, as the two generators gathered in hybrid mode do.
InitPair ==
    /\ InitOthers
    /\ call = NoCall
    /\ now = 0
    /\ _token = NoToken
    /\ issued = 0
    /\ validUntil = 0
    /\ rtt = 0
    /\ faultsLeft = PairFaults
    /\ task = [i \in Callers |->
                 [InitTask(TRUE, "create_workitem_and_wait", PairWait)
                    EXCEPT !.recording = TRUE]]

\* The tool perform_family_creation is called with some arguments.
InitCreate ==
    /\ InitOthers
    /\ now = 0
    /\ _token = NoToken
    /\ issued = 0
    /\ validUntil = 0
    /\ rtt = 0
    /\ faultsLeft = 0
    /\ task = [i \in Callers |-> InitTask(FALSE, None, 0)]
    /\ \E description, image_path, category \in Texts,
          use_prompt, use_image \in BOOLEAN :
          call = NewCall(description, image_path, category, use_prompt, use_image)

\* One caller uses the client; the network fails at most LiveFaults requests.
InitLive ==
    /\ InitCommon
    /\ faultsLeft = LiveFaults
    /\ \E mw \in MaxWaits :
          task = [i \in Callers |->
                    InitTask(i = "prompt", "create_workitem_and_wait", mw)]

\* Both callers call authenticate() on the shared client at the same time.
InitAuth ==
    /\ InitCommon
    /\ faultsLeft = MaxFaults
    /\ task = [i \in Callers |-> InitTask(TRUE, "authenticate", 0)]

Next ==
    \E i \in Callers :
        \/ Start(i)
        \/ AuthGranted(i)
        \/ AuthFailed(i)
        \/ AuthRetry(i)
        \/ SubmitAccepted(i)
        \/ SubmitFailed(i)
        \/ StatusReceived(i)
        \/ StatusHttpError(i)
        \/ StatusRequestError(i)
        \/ StatusRetry(i)
        \/ PollWake(i)
        \/ DownloadReceived(i)
        \/ DownloadFailed(i)

NextExec ==
    \E i \in Callers :
        \/ Start(i)
        \/ AuthGranted(i)
        \/ AuthFailed(i)
        \/ AuthRetry(i)
        \/ SubmitAccepted(i)
        \/ SubmitFailed(i)
        \/ StatusReceived(i)
        \/ StatusHttpError(i)
        \/ StatusRequestError(i)
        \/ StatusRetry(i)
        \/ PollWake(i)
        \/ DownloadReceived(i)
        \/ DownloadFailed(i)
        \/ ExecRetry(i)
        \/ Cancel(i)

\* Two runs; of their requests only those for the token, the one thing
\* they share, may fail.
NextPair ==
    \E i \in Callers :
        \/ Start(i)
        \/ AuthGranted(i)
        \/ AuthFailed(i)
        \/ AuthRetry(i)
        \/ SubmitAccepted(i)
        \/ StatusReceived(i)
        \/ PollWake(i)
        \/ DownloadReceived(i)

NextCreate ==
    \/ Validate
    \/ GenerateFromPrompt
    \/ GenerateFromImage
    \/ GatherRaises

NextMigrate ==
    \/ MigrateUp
    \/ CreateMigration
    \/ EditMigration
    \/ Rollback

NextClient ==
    \/ GetApsClient
    \/ ClientAuthenticates

NextAuth ==
    \E i \in Callers :
        \/ Start(i)
        \/ AuthGranted(i)
        \/ AuthFailed(i)
        \/ AuthRetry(i)
        \/ CallAgain(i)

\* One create_workitem_and_wait on the client.
Spec == Init /\ [][Next]_vars

\* One execute_aps_workitem, with tenacity's retry around the run.
SpecExec == InitExec /\ [][NextExec]_vars

\* Two concurrent create_workitem_and_wait on the shared client.
SpecPair == InitPair /\ [][NextPair]_vars

\* One call of the tool perform_family_creation.
SpecCreate == InitCreate /\ [][NextCreate]_vars

\* Two concurrent callers of authenticate() on the shared client.
SpecAuth == InitAuth /\ [][NextAuth]_vars

\* Calls of get_template_catalog.
SpecCatalog == InitIdle /\ [][GetTemplateCatalog]_vars

\* The commands of migrate.py on one database and one migrations directory.
SpecMigrate == InitIdle /\ [][NextMigrate]_vars

\* Calls of get_aps_client, and the client's use.
SpecClient == InitIdle /\ [][NextClient]_vars

\* One create_workitem_and_wait whose awaits all complete: the event loop
\* resumes a coroutine whose request was answered or failed, or whose sleep
\* is over.
SpecLive == InitLive /\ [][Next]_vars /\ WF_vars(Next)


\* --------------------------------------------------------------- claims
Runs(i) == task[i].entry = "create_workitem_and_wait"

InPoll(i) == Polling(task[i])

TotalExchanges == task["prompt"].nExchange + task["image"].nExchange

\* C1: when both callers call authenticate() at the same time with no
\* credential cached and no exchange fails, the two first calls take one
\* exchange request between them and return the same credential.
C1_SingleFlight ==
    (/\ \A i \in Callers : task[i].calls = 1 /\ task[i].pc = "done"
     /\ faultsLeft = MaxFaults)
    => /\ TotalExchanges = 1
       /\ task["prompt"].token = task["image"].token

\* C2: after an exchange granted at time t with expires_in = E, no call of
\* authenticate() made before t + E - 300 issues an exchange request
\* (validUntil is the latest such t + E - 300).
C2_NoExchangeWhileValid ==
    [][\A i \in Callers :
          task'[i].nExchange > task[i].nExchange => now' >= validUntil]_vars

\* C3: once the exchange create_workitem waits for was answered with an HTTP
\* error, the run issues no submission, no status query and no download, and
\* it ends raising the error of authenticate.
C3_RejectedExchangeStopsRun ==
    \A i \in Callers :
        (Runs(i) /\ task[i].rejected = "create_workitem")
        => /\ task[i].nSubmit = 0 /\ task[i].nQuery = 0 /\ task[i].nDownload = 0
           /\ task[i].pc = "done"
              => task[i].outcome = "raise" /\ task[i].err.origin = "authenticate"

\* C4: poll_workitem returns the status of the first response that reports
\* "success": it is the last response received, poll_workitem has returned
\* it at the time it arrived, every sleep was before it, and the caller is
\* never again in a status query or the inter-poll sleep.
C4_ReturnsFirstSuccess ==
    \A i \in Callers :
        task[i].firstSuccess # 0
        => /\ task[i].polled = "return"
           /\ task[i].status.status = "success"
           /\ task[i].nResp = task[i].firstSuccess
           /\ task[i].nSleep = task[i].nResp - 1
           /\ task[i].end_time = task[i].qstart + task[i].qdur
           /\ ~InPoll(i)

C4_Witness ==
    \E i \in Callers :
        /\ task[i].firstSuccess >= 2 /\ task[i].nSleep >= 1
        /\ task[i].pc = "done" /\ task[i].outcome = "return"

C6_TimeoutWhenOnlyInprogress ==
    \A i \in Callers :
        (Runs(i) /\ task[i].onlyInprogress)
        => /\ task[i].polled # "return"
           /\ InPoll(i) /\ task[i].pc # "poll_sleep"
              => task[i].qstart - task[i].start_time < task[i].max_wait
           /\ task[i].polled = "raise"
              => /\ task[i].err = WorkItemTimeout
                 /\ task[i].end_time - task[i].start_time >= task[i].max_wait

C6_Witness ==
    \E i \in Callers :
        /\ task[i].onlyInprogress /\ task[i].nResp >= 2
        /\ task[i].polled = "raise" /\ task[i].err = WorkItemTimeout
        /\ task[i].max_wait > 0

\* C7: poll_workitem ends no later than max_wait plus the duration of one
\* status query (here even the whole last get_workitem_status call) after
\* its start.
C7_WaitBound ==
    \A i \in Callers :
        task[i].polled # "none"
        => task[i].end_time - task[i].start_time
              <= task[i].max_wait + Max(rtt, task[i].qdur)

\* C8: when the final status lacks the url of a declared output argument, the
\* run issues no download and does not return.
C8_IncompleteFetchesNothing ==
    \A i \in Callers :
        (task[i].polled = "return" /\ ~(OutputArgs \subseteq task[i].status.urls))
        => task[i].nDownload = 0 /\ task[i].outcome # "return"

\* C9: a run that returns has issued one submission, received status
\* responses up to the first "success" and no more, downloaded one artifact
\* for each output argument that has a url in the final status, and returns
\* exactly those.
C9_HappyPath ==
    \A i \in Callers :
        (Runs(i) /\ task[i].outcome = "return")
        => /\ task[i].nSubmit = 1
           /\ task[i].firstSuccess # 0 /\ task[i].nResp = task[i].firstSuccess
           /\ task[i].nDownload = Cardinality(OutputArgs \cap task[i].status.urls)
           /\ DOMAIN task[i].outputs = OutputArgs \cap task[i].status.urls

\* The type of the exception the code raises for each cause the caller
\* has to tell apart.
RaisedType(cause) ==
    CASE cause = "authentication" -> AuthRetryError("HTTPStatusError").type
      [] cause = "submission" -> SubmitError("HTTPStatusError").type
      [] cause = "execution" -> WorkItemFailed(None).type
      [] cause = "cancellation" -> WorkItemCancelled.type
      [] cause = "timeout" -> WorkItemTimeout.type
      [] cause = "incomplete" -> MissingOutputs.type

Causes == {"authentication", "submission", "execution", "cancellation",
           "timeout", "incomplete"}

\* C10: the type of the exception a run raises tells its cause: it is not
\* the type raised for any other of the six causes.
C10_ErrorKindsDistinct ==
    \A i \in Callers :
        (task[i].outcome = "raise" /\ task[i].cause \in Causes)
        => \A c \in Causes \ {task[i].cause} : task[i].err.type # RaisedType(c)

\* C11: within one call of execute_aps_workitem no workitem POST follows an
\* attempt that failed by a rejected submission, a failed or cancelled
\* workitem, a timeout or missing outputs.
C11_NoResubmission ==
    \A i \in Callers :
        task[i].resubmittedAfter
            \cap {"submission", "execution", "cancellation", "timeout", "incomplete"}
        = {}

\* C12: within one create_workitem_and_wait the workitem POST has been answered
\* before any status GET is issued, and at most one status GET is in flight
\* at any time: exactly one while the caller awaits it, none otherwise.
C12_SubmitThenSequentialPolls ==
    \A i \in Callers :
        Runs(i)
        => /\ task[i].nQuery > 0 => task[i].nSubmit = 1 /\ task[i].nSubmitDone = 1
           /\ task[i].nQuery - task[i].nQueryDone
                  = (IF task[i].pc = "status_get" THEN 1 ELSE 0)

C12_Witness ==
    \E i \in Callers :
        /\ Runs(i) /\ task[i].pc = "status_get"
        /\ task[i].nQuery >= 3 /\ task[i].nResp >= 1

\* C13: once the caller has cancelled the task (in a status query, in the
\* inter-poll sleep or in any other await of the run), the run is over: it
\* issues no further status query, submission or download, and what it
\* raised is asyncio's CancelledError, which is not the error raised when the
\* service reports the workitem cancelled.
C13_CallerCancelStops ==
    [][\A i \in Callers :
          /\ task[i].cancelledAt # None => task'[i] = task[i]
          /\ task'[i].cancelledAt # None
             => /\ task'[i].pc = "done" /\ task'[i].outcome = "raise"
                /\ task'[i].err = CancelledError
                /\ task'[i].err.type # WorkItemCancelled.type]_vars

C13_Witness ==
    \E i \in Callers :
        /\ task[i].cancelledAt = "poll_sleep"
        /\ task[i].exec_attempt = 1 /\ task[i].nResp >= 2
        /\ task[i].polled = "raise" /\ task[i].pc = "done"

\* C15: once an exchange of the run was answered with an HTTP error, the
\* authenticate() call has failed: the run has ended raising the
\* authentication failure and no further exchange request was issued.
C15_RejectedExchangeNotRetried ==
    \A i \in Callers :
        (Runs(i) /\ task[i].rejected # None)
        => /\ task[i].nExchange = task[i].exchAtReject
           /\ task[i].pc = "done" /\ task[i].outcome = "raise"
           /\ task[i].cause = "authentication"

\* C16: a failed exchange leaves the cache as it was, and a credential that
\* was cached when a failed exchange was issued is returned by no later call
\* of authenticate().
C16_FailedExchangeKeepsNothing ==
    [][\A i \in Callers :
          /\ task'[i].nExchFailed > task[i].nExchFailed => _token' = _token
          /\ task'[i].nToken > task[i].nToken
             => \A j \in Callers : task'[i].token \notin task[j].stale]_vars

C16_Witness ==
    \E i, j \in Callers :
        /\ task[j].stale # {}
        /\ task[i].pc = "done" /\ task[i].outcome = "return"
        /\ \A k \in task[j].stale : task[i].token > k

\* C17: when the category is missing, or neither a description nor an image
\* path is given, perform_family_creation has raised ValueError as soon as it
\* has run, and has made no template lookup, image processing or APS call.
C17_ValidationFirst ==
    (/\ call.pc \notin {"idle", "start"}
     /\ \/ call.category \in {None, ""}
        \/ call.description \in {None, ""} /\ call.image_path \in {None, ""})
    => /\ call.pc = "done" /\ call.err = "ValueError"
       /\ call.nLookup = 0 /\ call.nImage = 0 /\ call.nAps = 0
       /\ \A i \in Callers : task[i].pc = "idle"

C17_Witness ==
    /\ call.pc = "done" /\ call.err = "ValueError"
    /\ call.category = ""
    /\ call.description = "text" /\ call.image_path = "text"
    /\ call.use_prompt /\ call.use_image

\* C18: a response reporting "cancelled" ends poll_workitem at once with the
\* RuntimeError of a cancelled workitem: it is the last response,
\* poll_workitem raised at the time it arrived, every sleep was before it,
\* and the run, which has ended raising that error, has issued no download.
C18_CancelledFails ==
    \A i \in Callers :
        (Runs(i) /\ task[i].last_status = "cancelled")
        => /\ task[i].polled = "raise"
           /\ task[i].pc = "done" /\ task[i].outcome = "raise"
           /\ task[i].err = WorkItemCancelled
           /\ task[i].nSleep = task[i].nResp - 1
           /\ task[i].nQuery = task[i].nQueryDone
           /\ task[i].end_time = task[i].qstart + task[i].qdur
           /\ task[i].nDownload = 0

C18_Witness ==
    \E i \in Callers :
        /\ Runs(i) /\ task[i].last_status = "cancelled"
        /\ task[i].nResp >= 2 /\ task[i].nSleep >= 1
        /\ task[i].pc = "done"

\* C19 as stated: the first poll always notifies, so a run that has
\* received a status response has printed a status update.
C19_FirstPollNotifies ==
    \A i \in Callers :
        (Runs(i) /\ task[i].nResp >= 1) => task[i].nNote >= 1

\* C19 amended: the poll that receives a response prints a status update
\* exactly when the status it observes differs from the one the previous poll
\* observed (None before the first poll, so the first poll notifies exactly
\* when its response carries a status), the update names the observed
\* status, and when the poll ends poll_workitem on a terminal status that
\* status is the one last printed.
C19_NotifiesOnChange ==
    [][\A i \in Callers :
          (Runs(i) /\ task'[i].nResp = task[i].nResp + 1)
          => LET prev == task[i].status.status
                 cur == task'[i].status.status
             IN  /\ task'[i].nNote
                        = task[i].nNote + (IF cur # prev THEN 1 ELSE 0)
                 /\ cur # prev => task'[i].lastNoted = cur
                 /\ task'[i].polled # "none"
                    => task'[i].lastNoted = cur /\ task'[i].nNote >= 1]_vars

C19_Witness ==
    \E i \in Callers :
        /\ Runs(i) /\ task[i].nResp = 3 /\ task[i].nNote = 2
        /\ task[i].polled = "return" /\ task[i].lastNoted = "success"

Terminal(st) == st \in {"success", "failedInstructions", "cancelled"}

\* C20: within one poll at most 3 status GETs are issued; the GET is repeated
\* only after a transient network error, and an HTTP error response ends the
\* poll with that error; a response that comes on a repeated attempt is
\* treated as any other: on a non-terminal status the loop goes on to its
\* sleep, and the run never ends with an error of the status query.
C20_StatusQueryRetry ==
    \A i \in Callers :
        Runs(i)
        => /\ task[i].nQuery - task[i].qAtPoll <= 3
           /\ task[i].pc = "status_backoff" => task[i].statusErr = "RequestError"
           /\ task[i].statusErr = "HTTPStatusError"
              => /\ task[i].pc = "done" /\ task[i].polled = "raise"
                 /\ task[i].err = StatusHttpStatusError
           /\ task[i].recovered
              => /\ ~Terminal(task[i].status.status) => task[i].pc = "poll_sleep"
                 /\ task[i].outcome = "raise"
                    => task[i].err.origin # "get_workitem_status"

C20_Witness ==
    \E i \in Callers :
        /\ Runs(i) /\ task[i].recovered
        /\ task[i].nQuery - task[i].qAtPoll = 3
        /\ task[i].nResp >= 2 /\ task[i].pc = "poll_sleep"

\* What a run hands to its caller.
Result(r) == [outcome |-> r.outcome, err |-> r.err, status |-> r.status,
              names |-> DOMAIN r.outputs,
              contents |-> {<<a, r.outputs[a]>> : a \in DOMAIN r.outputs}]

C21_DeadlineAfterQuery ==
    \A i \in Callers :
        (Runs(i) /\ task[i].polled # "none")
        => /\ task[i].nQuery >= 1
           /\ task[i].err = WorkItemTimeout
              => task[i].nResp >= 1 /\ ~Terminal(task[i].status.status)

\* C22: what a run downloads and returns are output arguments (verb put) only:
\* an input reference that carries a url in the final status is neither
\* downloaded nor among the returned names.
C22_OnlyOutputsFetched ==
    \A i \in Callers :
        Runs(i)
        => /\ \A k \in 1 .. Len(task[i].pending) : Verb(task[i].pending[k]) = "put"
           /\ DOMAIN task[i].outputs \subseteq OutputArgs

C29_DownloadsAfterSuccess ==
    \A i \in Callers :
        Runs(i)
        => /\ task[i].polled = "return"
              => /\ task[i].status.status = "success"
                 /\ task[i].firstSuccess = task[i].nResp
                 /\ task[i].nQuery = task[i].nQueryDone
           /\ (task[i].nDownload > 0 \/ task[i].pending # <<>>
               \/ DOMAIN task[i].outputs # {})
              => /\ task[i].polled = "return"
                 /\ \A k \in 1 .. Len(task[i].pending) :
                       task[i].pending[k] \in task[i].status.urls
                 /\ DOMAIN task[i].outputs \subseteq task[i].status.urls

C29_Witness ==
    \E i \in Callers :
        /\ Runs(i) /\ task[i].pc = "download"
        /\ task[i].nDownload = 2 /\ task[i].nResp >= 2
        /\ task[i].status.urls = OutputArgs

MaxPolls(max_wait, poll_interval) ==
    IF max_wait <= 0 THEN 0 ELSE (max_wait - 1) \div poll_interval + 1

\* C24: poll_workitem terminates whatever the status responses are: a run
\* that is in a status query or in the inter-poll sleep eventually has
\* poll_workitem ended, the number of status responses it receives is bounded by
\* the polls that fit into max_wait, and a poll_workitem whose status
\* queries all returned ends by returning a success status or by raising
\* the error of a failed workitem, of a cancelled one, or TimeoutError.
C24_PollTerminates ==
    /\ \A i \in Callers :
          (Runs(i) /\ InPoll(i)) ~> (task[i].polled # "none")
    /\ [](\A i \in Callers :
             Runs(i)
             => /\ task[i].nResp <= MaxPolls(task[i].max_wait, task[i].poll_interval)
                /\ task[i].nSleep <= task[i].nResp
                /\ (task[i].polled = "return")
                   => task[i].status.status = "success"
                /\ (task[i].polled = "raise"
                    /\ task[i].err.origin \notin {"get_workitem_status", "authenticate"})
                   => task[i].err \in {WorkItemFailed(None),
                                       WorkItemFailed("reportUrl"),
                                       WorkItemCancelled, WorkItemTimeout})

C24_Witness ==
    \E i \in Callers :
        /\ Runs(i) /\ task[i].polled = "raise" /\ task[i].err = WorkItemTimeout
        /\ task[i].nResp = MaxPolls(task[i].max_wait, task[i].poll_interval)
        /\ task[i].nResp >= 2

\* C27: a generator that was given a category and got a matching template
\* reaches the APS step: it has called execute_aps_workitem once, and it has
\* not failed while building the parameters of that call.
C27_GeneratorsReachAps ==
    /\ call.nAps = (IF call.promptFound THEN 1 ELSE 0)
                   + (IF call.imageFound THEN 1 ELSE 0)
    /\ call.promptFound => call.promptErr \notin {"KeyError", "TypeError"}
    /\ call.imageFound => call.imageErr \notin {"KeyError", "TypeError"}

\* The ids of the templates a listing holds.
ListedIds == {listing.result[k].template_id : k \in 1 .. Len(listing.result)}

\* C25: get_template_catalog returns exactly the templates of the catalog
\* whose revit_version is the requested one and, when a (non-empty) category
\* filter is given, whose category is the normalized filter: each of them
\* once, as the dict made of it, and nothing else (an entry of the category
\* index would be a second copy of a template).
C25_ListingExact ==
    listing.n > 0
    => LET wanted(t) ==
               /\ t.revit_version = listing.revit_version
               /\ Truthy(listing.category_filter)
                  => t.category = normalize_category(listing.category_filter)
       IN  /\ ListedIds = {default_templates[k].id :
                             k \in {j \in 1 .. Len(default_templates) :
                                       wanted(default_templates[j])}}
           /\ Len(listing.result) = Cardinality(ListedIds)
           /\ \A k \in 1 .. Len(listing.result) :
                 \E j \in 1 .. Len(default_templates) :
                    listing.result[k] = TemplateDict(_catalog, default_templates[j])

C25_Witness ==
    /\ listing.n = 2
    /\ listing.category_filter = " chair " /\ listing.revit_version = "2025"
    /\ Len(listing.result) = 1
    /\ listing.result[1].template_id = "furniture_v1"
    /\ listing.result[1].category = "Furniture"
    /\ _catalog.base_url # listing.catalog_url

\* The filenames of the migrations a migrate_up executed.
Ran(r) == {r.ran[k].filename : k \in 1 .. Len(r.ran)}

\* C26: a call of migrate_up executes no migration whose filename had a row
\* in archon_migrations when it was called, whether the file's checksum is the
\* recorded one or not, and executes none twice; and a migrate_up that is
\* called when an earlier one has succeeded, with no file created and no
\* migration rolled back since, executes nothing and records nothing.
C26_AppliedNeverRerun ==
    [][upRun'.n > upRun.n
       => /\ \A f \in Ran(upRun') : archon_migrations[f] = 0
          /\ Cardinality(Ran(upRun')) = Len(upRun'.ran)
          /\ upRun.settled
             => upRun'.ran = <<>> /\ archon_migrations' = archon_migrations]_vars

\* File 1 was applied and then edited, file 2 was created and applied by the
\* second migrate_up; the third migrate_up has executed nothing.
C26_Witness ==
    /\ upRun.n = 3 /\ ~upRun.dry_run /\ upRun.ok /\ upRun.ran = <<>>
    /\ archon_migrations[1] = 1 /\ MIGRATIONS_DIR[1] = 2
    /\ archon_migrations[2] # 0

\* C30: a call of get_aps_client returns the current instance, with the
\* credential it has cached, its client_secret and its region, when there is
\* one and its client_id is the requested one, whatever client_secret and
\* region are passed; otherwise it creates an instance that never existed
\* before, from the arguments and with no credential, and returns that one.
\* What it returns is the singleton from then on.
C30_SingletonPerClientId ==
    [][got'.n > got.n
       => LET fresh == \/ _aps_client = NoClient
                       \/ _aps_client.client_id # got'.client_id
          IN  /\ got'.returned = _aps_client'
              /\ got'.returned.client_id = got'.client_id
              /\ ~fresh => got'.returned = _aps_client
              /\ fresh => got'.returned
                             = APSClient(got.made + 1, got'.client_id,
                                         got'.client_secret, got'.region)
              /\ got'.made = got.made + (IF fresh THEN 1 ELSE 0)]_vars

\* The third call, with the client_id of the first instance but another
\* client_secret and another region, has returned the first instance, which
\* holds the token it cached.
C30_Witness ==
    /\ got.n = 3 /\ got.returned = _aps_client
    /\ got.returned.id = 1 /\ got.made = 1
    /\ got.returned._token # NoToken
    /\ got.client_secret # got.returned.client_secret
    /\ got.region # got.returned.region

====
